---- MODULE Spec2Model ----
(***************************************************************************)
(* Lineup generation (src/nfl_stacks.py, SleekOptimizer.optimize) and the  *)
(* three post-generation diversification passes (src/nfl.py                *)
(* diversify_lineups, src/div_lineup.py diversify_lineups_wide,            *)
(* src/nflstacks.py diversify_lineups_wide) as state machines, with the    *)
(* Generate and Diversify handlers around them and the Generate handler    *)
(* of src/mvp.py.                                                          *)
(*                                                                         *)
(* Conventions                                                             *)
(*  - salaries and projected points are small integers (the code sums      *)
(*    floats; only sums and comparisons are used);                         *)
(*  - an exposure fraction is a pair num/den and every comparison          *)
(*    a/b <= num/den is done by cross-multiplication;                      *)
(*  - an Optional value is a record with a `some` flag;                    *)
(*  - a player is identified by its index in the player table; the order   *)
(*    of the indices stands for the lexicographic order of the names that  *)
(*    tuple(sorted([a, b])) uses.                                          *)
(***************************************************************************)
EXTENDS Integers, Sequences, FiniteSets, TLC

VARIABLES
    \* ---- SleekOptimizer.optimize (src/nfl_stacks.py) ----
    o_cfg,       \* the call's inputs: settings, n, max_exposure, flags, rules
    o_maxexp,    \* players_df.max_exposure, per player
    o_fppg,      \* df.fppg as the solves see it (perturbed when randomness)
    context,     \* context = {'lineups_generated', 'player_uses'}
    yielded,     \* the lineups yielded so far, in order
    o_pc,        \* "solve" | "yielded" | "done" | "raised" | "off"
    solves,      \* how many times prob.solve() has been called
    \* ---- Generate Lineups handler (src/nflstacks.py) ----
    lineups,     \* the handler's `lineups` once list(...) returned or raised
    gen_msg,     \* "none" | "success" (st.success) | "error" (st.error)
    \* ---- diversification passes ----
    d_impl,      \* "nfl" | "wide" | "stacks" | "off"
    d_par,       \* max_exposure, max_pair_exposure, salary_min, salary_cap
    df_in,       \* the input batch (never written)
    df,          \* the working copy: rows of cells, TotalSalary, ProjectedPoints
    exposure,    \* Counter of players
    pair_exposure, \* Counter of sorted pairs
    d_li,        \* index of the lineup being processed
    d_todo,      \* slots of lineup d_li still to visit, in visiting order
    lineup_players, \* nflstacks.py: the names read at the start of lineup d_li
    d_mod,       \* rows that received an accepted substitution
    d_last,      \* the last slot visit: what happened there
    d_pc,        \* "slot" | "final" | "done" | "shown" | "off"
    warnings,    \* what the Diversify handler reports with st.warning
    \* ---- Generate handler of src/mvp.py ----
    m_cfg,       \* num_lineups, max_player_pairs, min_salary, max_salary
    m_pool,      \* the lineups optimizer.optimize can yield, in its order
    m_filtered,  \* filtered_lineups
    m_msg,       \* "none" | "success" | "warning" (success and shortfall) | "error"
    m_pc         \* "ready" | "shown" | "stopped" | "off"

ovars == <<o_cfg, o_maxexp, o_fppg, context, yielded, o_pc, solves, lineups, gen_msg>>
dvars == <<d_impl, d_par, df_in, df, exposure, pair_exposure, d_li, d_todo,
           lineup_players, d_mod, d_last, d_pc, warnings>>
mvars == <<m_cfg, m_pool, m_filtered, m_msg, m_pc>>
vars == <<ovars, dvars, mvars>>

----------------------------------------------------------------------------
(* Helpers *)

RECURSIVE SumOver(_, _)
SumOver(S, f) ==
    IF S = {} THEN 0
    ELSE LET x == CHOOSE y \in S : TRUE IN f[x] + SumOver(S \ {x}, f)

RECURSIVE SumSeq(_, _)
SumSeq(s, f) ==
    IF s = <<>> THEN 0 ELSE f[Head(s)] + SumSeq(Tail(s), f)

Range(s) == {s[i] : i \in DOMAIN s}

NoneVal == [some |-> FALSE, num |-> 0, den |-> 1]
Frac(n, d) == [some |-> TRUE, num |-> n, den |-> d]

----------------------------------------------------------------------------
(* SleekOptimizer: the player pool (players_df) and the settings *)

\* players_df rows: id is the index; positions as split from 'Position'.
\* Rows 1-9 are one salary file ("small"), rows 10-20 another ("football").
OptPool == <<
    [name |-> "q1", positions |-> {"QB"},       team |-> "A", salary |-> 3, fppg |-> 6, injured |-> FALSE],
    [name |-> "q2", positions |-> {"QB"},       team |-> "B", salary |-> 2, fppg |-> 5, injured |-> FALSE],
    [name |-> "r1", positions |-> {"RB"},       team |-> "A", salary |-> 3, fppg |-> 5, injured |-> FALSE],
    [name |-> "r2", positions |-> {"RB"},       team |-> "B", salary |-> 2, fppg |-> 3, injured |-> FALSE],
    [name |-> "w1", positions |-> {"WR"},       team |-> "A", salary |-> 3, fppg |-> 5, injured |-> FALSE],
    [name |-> "w2", positions |-> {"WR"},       team |-> "B", salary |-> 2, fppg |-> 4, injured |-> FALSE],
    [name |-> "w3", positions |-> {"WR"},       team |-> "C", salary |-> 1, fppg |-> 2, injured |-> FALSE],
    [name |-> "x1", positions |-> {"RB", "WR"}, team |-> "C", salary |-> 2, fppg |-> 4, injured |-> FALSE],
    [name |-> "i1", positions |-> {"WR"},       team |-> "C", salary |-> 1, fppg |-> 7, injured |-> TRUE],
    [name |-> "fq1", positions |-> {"QB"},      team |-> "A", salary |-> 3, fppg |-> 6, injured |-> FALSE],
    [name |-> "fr1", positions |-> {"RB"},      team |-> "A", salary |-> 3, fppg |-> 5, injured |-> FALSE],
    [name |-> "fr2", positions |-> {"RB"},      team |-> "A", salary |-> 2, fppg |-> 4, injured |-> FALSE],
    [name |-> "fr3", positions |-> {"RB"},      team |-> "B", salary |-> 2, fppg |-> 3, injured |-> FALSE],
    [name |-> "fw1", positions |-> {"WR"},      team |-> "A", salary |-> 3, fppg |-> 5, injured |-> FALSE],
    [name |-> "fw2", positions |-> {"WR"},      team |-> "A", salary |-> 2, fppg |-> 4, injured |-> FALSE],
    [name |-> "fw3", positions |-> {"WR"},      team |-> "B", salary |-> 2, fppg |-> 3, injured |-> FALSE],
    [name |-> "fw4", positions |-> {"WR"},      team |-> "C", salary |-> 1, fppg |-> 2, injured |-> FALSE],
    [name |-> "ft1", positions |-> {"TE"},      team |-> "B", salary |-> 2, fppg |-> 3, injured |-> FALSE],
    [name |-> "fd1", positions |-> {"DST"},     team |-> "B", salary |-> 2, fppg |-> 3, injured |-> FALSE],
    [name |-> "fd2", positions |-> {"DST"},     team |-> "C", salary |-> 2, fppg |-> 2, injured |-> FALSE] >>

\* the rows of the salary file a call has loaded
PoolIds(pool) == IF pool = "small" THEN 1..9 ELSE 10..20

OptIds == DOMAIN OptPool
OptTeams == {OptPool[p].team : p \in OptIds}
OptSalary == [p \in OptIds |-> OptPool[p].salary]
BaseFppg == [p \in OptIds |-> OptPool[p].fppg]

\* Settings.positions / total_players of the modelled template
\* (a Settings value with the shape of the DFS_CONFIGS entries).
TemplatePositions == [QB |-> 1, RB |-> 1, WR |-> 2]
TemplateTotalPlayers == SumOver(DOMAIN TemplatePositions, TemplatePositions)

\* DFS_CONFIGS[...]['FOOTBALL'] (lines 55-60, 69-75, 83-87): 'positions' and
\* 'total_players'
FootballPositions == [QB |-> 1, RB |-> 2, WR |-> 3, TE |-> 1, FLEX |-> 1, DST |-> 1]
FootballTotalPlayers == 9

\* a Settings value without a FLEX entry, as FANDUEL BASKETBALL has none of
\* the utility entries
NoFlexPositions == [QB |-> 1, RB |-> 2, WR |-> 3, TE |-> 1, DST |-> 1]
NoFlexTotalPlayers == SumOver(DOMAIN NoFlexPositions, NoFlexPositions)

\* bounds of the generation model
MaxN == 3
Budgets == {9, 11}
FootballBudgets == {18, 21}
TeamCaps == {0, 2}            \* 0 stands for max_from_team = None (both falsy)
ExposureChoices == {NoneVal, Frac(1, 2), Frac(1, 3), Frac(0, 1)}

\* optimize line 245: fppg * (1 + uniform(-0.12, 0.12)); on the model's
\* integer scale a perturbation moves a player's points by at most one.
\* Two perturbed tables are drawn: one creates a tie between the two QBs,
\* one lifts a cheaper WR over a dearer one.
PerturbedFppg ==
    { [BaseFppg EXCEPT ![1] = @ - 1], [BaseFppg EXCEPT ![6] = @ + 1, ![5] = @ - 1] }

\* self.players_df[~self.players_df.injured] unless with_injured
OptDf(cfg) ==
    IF cfg.with_injured THEN PoolIds(cfg.pool)
    ELSE {p \in PoolIds(cfg.pool) : ~OptPool[p].injured}

\* lambda used, total, max_exp: used / total <= (max_exp or 1.0)
exposure_strategy(used, total, max_exp) ==
    LET eff == IF max_exp.some /\ max_exp.num # 0 THEN max_exp ELSE Frac(1, 1)
    IN  used * eff.den <= eff.num * total

\* optimize lines 268-272: the players whose variable is fixed to 0
ExposureExcluded(cfg, mexp, ctx) ==
    { p \in OptDf(cfg) :
        /\ mexp[p].some
        /\ ~exposure_strategy(ctx.player_uses[p], ctx.lineups_generated + 1, mexp[p]) }

\* _max_repeating_players_rule: used >= max_repeating_players fixes the variable to 0
MaxRepeatingRule(S, rule, ctx) ==
    \A p \in S : ~(ctx.player_uses[p] >= rule.k)

\* restrict_positions_for_same_team((a, b)): p1 + p2 <= 1 for distinct same-team
\* players, p1 with position a and p2 with position b
RestrictSameTeamRule(S, rule) ==
    \A p1, p2 \in S :
        ( /\ p1 # p2
          /\ OptPool[p1].team = OptPool[p2].team
          /\ rule.a \in OptPool[p1].positions
          /\ rule.b \in OptPool[p2].positions ) => FALSE

\* the selected players of a team that hold one of the positions
OnTeamWith(S, team, positions) ==
    {p \in S : OptPool[p].team = team /\ OptPool[p].positions \cap positions # {}}

\* the forbidden pairs of one direction only
RestrictOpposingRuleOneWay(S, rule, cfg) ==
    \A g \in cfg.games_map :
        \A p1 \in OnTeamWith(S, g.t1, rule.pos1), p2 \in OnTeamWith(S, g.t2, rule.pos2) : FALSE

\* restrict_positions_for_opposing_team(positions1, positions2), lines 176-192:
\* p1 + p2 <= 1 for p1 of one side with a position of positions1 and p2 of
\* the other side with a position of positions2, both ways round
RestrictOpposingRule(S, rule, cfg) ==
    \A g \in cfg.games_map :
        /\ \A p1 \in OnTeamWith(S, g.t1, rule.pos1), p2 \in OnTeamWith(S, g.t2, rule.pos2) : FALSE
        /\ \A p1 \in OnTeamWith(S, g.t2, rule.pos1), p2 \in OnTeamWith(S, g.t1, rule.pos2) : FALSE

\* force_positions_for_opposing_team((pos1, pos2)), lines 194-209: for every
\* game both sums reach 2.  (With pos1 = pos2 the two constraints carry one
\* name; the modelled calls pass different positions.)
ForceOpposingRule(S, rule, cfg) ==
    \A g \in cfg.games_map :
        /\ Cardinality(OnTeamWith(S, g.t1, {rule.a}))
              + Cardinality(OnTeamWith(S, g.t2, {rule.b})) >= 2
        /\ Cardinality(OnTeamWith(S, g.t2, {rule.a}))
              + Cardinality(OnTeamWith(S, g.t1, {rule.b})) >= 2

\* df.team.unique()
DfTeams(cfg) == {OptPool[p].team : p \in OptDf(cfg)}

\* _team_stack_rule(size, for_positions), lines 217-224: one constraint per
\* team of df; an empty for_positions is falsy and keeps every player
TeamStackRule(S, rule, cfg) ==
    \A team \in DfTeams(cfg) :
        Cardinality({p \in S : /\ OptPool[p].team = team
                               /\ (rule.pos1 # {} => OptPool[p].positions \cap rule.pos1 # {})})
            >= rule.k

\* df.game_id of a player: the game of games_map its team plays in, if any
GameOf(p, cfg) == {g \in cfg.games_map : OptPool[p].team \in {g.t1, g.t2}}

\* _game_stack_rule(size, min_from_team), lines 226-237: three constraints
\* per game id found in df
GameStackRule(S, rule, cfg) ==
    \A g \in UNION {GameOf(p, cfg) : p \in OptDf(cfg)} :
        /\ Cardinality({p \in S : g \in GameOf(p, cfg)}) >= rule.k
        /\ Cardinality({p \in S : g \in GameOf(p, cfg) /\ OptPool[p].team = g.t1}) >= rule.min
        /\ Cardinality({p \in S : g \in GameOf(p, cfg) /\ OptPool[p].team = g.t2}) >= rule.min

RuleHolds(S, rule, cfg, ctx) ==
    CASE rule.kind = "MaxRepeat"    -> MaxRepeatingRule(S, rule, ctx)
      [] rule.kind = "RestrictSame" -> RestrictSameTeamRule(S, rule)
      [] rule.kind = "RestrictOpp"  -> RestrictOpposingRule(S, rule, cfg)
      [] rule.kind = "ForceOpp"     -> ForceOpposingRule(S, rule, cfg)
      [] rule.kind = "TeamStack"    -> TeamStackRule(S, rule, cfg)
      [] rule.kind = "GameStack"    -> GameStackRule(S, rule, cfg)

\* an objective that weighs salary instead of projected points
ObjectiveValueBySalary(S, fppg) == SumOver(S, OptSalary)

\* objective, optimize line 252
ObjectiveValue(S, fppg) == SumOver(S, fppg)

\* "Total_Players", optimize line 253
TotalPlayersConstraint(S, cfg) == Cardinality(S) = cfg.total_players

\* "Budget", optimize line 254
BudgetConstraint(S, cfg) == SumOver(S, OptSalary) <= cfg.budget

\* a position quota written as a lower bound instead of an equality
PositionConstraintAtLeast(S, cfg) ==
    \A pos \in DOMAIN cfg.positions :
        Cardinality({p \in S : pos \in OptPool[p].positions}) >= cfg.positions[pos]

\* "Pos_<pos>", optimize lines 256-258
PositionConstraint(S, cfg) ==
    \A pos \in DOMAIN cfg.positions :
        Cardinality({p \in S : pos \in OptPool[p].positions}) = cfg.positions[pos]

\* "Team_<team>", optimize lines 260-263 (skipped when max_from_team is falsy)
TeamConstraint(S, cfg) ==
    cfg.max_from_team # 0 =>
        \A t \in OptTeams :
            Cardinality({p \in S : OptPool[p].team = t}) <= cfg.max_from_team

\* the constraint set of one solve, optimize lines 253-272
Feasible(S, cfg, mexp, ctx) ==
    /\ TotalPlayersConstraint(S, cfg)
    /\ BudgetConstraint(S, cfg)
    /\ PositionConstraint(S, cfg)
    /\ TeamConstraint(S, cfg)
    /\ \A rule \in cfg.rules : RuleHolds(S, rule, cfg, ctx)
    /\ S \cap ExposureExcluded(cfg, mexp, ctx) = {}

FeasibleSets(cfg, mexp, ctx) ==
    {S \in SUBSET OptDf(cfg) : Feasible(S, cfg, mexp, ctx)}

\* prob.solve(): an optimal solution of the integer program
OptimalSets(cfg, mexp, fppg, ctx) ==
    LET F == FeasibleSets(cfg, mexp, ctx)
    IN  {S \in F : \A T \in F : ObjectiveValue(T, fppg) <= ObjectiveValue(S, fppg)}

\* Lineup.__post_init__ over the selected df rows
MakeLineup(S, fppg) ==
    [players |-> S, total_fppg |-> SumOver(S, fppg), total_salary |-> SumOver(S, OptSalary)]

\* optimize line 247
InitialContext(cfg) ==
    [lineups_generated |-> 0, player_uses |-> [p \in OptDf(cfg) |-> 0]]

\* a registered rule: its kind and the arguments of the call that added it
Rule(kind, k, a, b, pos1, pos2, min) ==
    [kind |-> kind, k |-> k, a |-> a, b |-> b, pos1 |-> pos1, pos2 |-> pos2, min |-> min]

MaxRepeatRules == {Rule("MaxRepeat", k, "", "", {}, {}, 0) : k \in {1}}
RestrictRules == {Rule("RestrictSame", 0, "QB", "WR", {}, {}, 0)}
RuleSets == {{}} \cup {{r} : r \in MaxRepeatRules \cup RestrictRules}

\* further calls on the small salary file: set_max_repeating_players(2),
\* restrict_positions_for_opposing_team(['QB'], ['WR']),
\* add_stack(TeamStack(1)), add_stack(TeamStack(2)), add_stack(GameStack(2, 1))
SmallRules ==
    { Rule("MaxRepeat", 2, "", "", {}, {}, 0),
      Rule("RestrictOpp", 0, "", "", {"QB"}, {"WR"}, 0),
      Rule("TeamStack", 1, "", "", {}, {}, 0),
      Rule("TeamStack", 2, "", "", {}, {}, 0),
      Rule("GameStack", 2, "", "", {}, {}, 1) }

\* calls on the football salary file: none,
\* force_positions_for_opposing_team(('RB', 'WR')),
\* restrict_positions_for_opposing_team(['DST'], ['QB', 'RB', 'WR', 'TE'])
FootballRuleSets ==
    { {},
      {Rule("ForceOpp", 0, "RB", "WR", {}, {}, 0)},
      {Rule("RestrictOpp", 0, "", "", {"DST"}, {"QB", "RB", "WR", "TE"}, 0)} }

\* self.games_map: one game, A against B; team C has none
GamesMap == {[gid |-> "A@B", t1 |-> "A", t2 |-> "B"]}

\* the calls on the small salary file with the 4-slot template
BaseConfigs ==
    [ n : 1..MaxN,
      max_exposure : {NoneVal, Frac(1, 2)},
      with_injured : BOOLEAN,
      randomness : BOOLEAN,
      budget : Budgets,
      positions : {TemplatePositions},
      total_players : {TemplateTotalPlayers},
      max_from_team : TeamCaps,
      rules : RuleSets,
      pool : {"small"},
      games_map : {GamesMap} ]

\* the same with one of the further rules
SmallRuleConfigs ==
    [ n : 1..MaxN,
      max_exposure : {NoneVal},
      with_injured : {FALSE},
      randomness : {FALSE},
      budget : Budgets,
      positions : {TemplatePositions},
      total_players : {TemplateTotalPlayers},
      max_from_team : {0},
      rules : {{r} : r \in SmallRules},
      pool : {"small"},
      games_map : {GamesMap} ]

\* the football salary file under the football template and under the
\* template without FLEX
FootballConfigs ==
    { [ n |-> n, max_exposure |-> NoneVal, with_injured |-> FALSE, randomness |-> FALSE,
        budget |-> b, positions |-> t[1], total_players |-> t[2], max_from_team |-> 0,
        rules |-> rs, pool |-> "football", games_map |-> GamesMap ] :
        n \in 1..MaxN, b \in FootballBudgets, rs \in FootballRuleSets,
        t \in { <<FootballPositions, FootballTotalPlayers>>,
                 <<NoFlexPositions, NoFlexTotalPlayers>> } }

\* the small salary file (8 players fit to play, 9 with the injured one)
\* under the 9-slot football template
ShortPoolConfigs ==
    { [ n |-> n, max_exposure |-> NoneVal, with_injured |-> inj, randomness |-> FALSE,
        budget |-> 21, positions |-> FootballPositions,
        total_players |-> FootballTotalPlayers, max_from_team |-> 0,
        rules |-> {}, pool |-> "small", games_map |-> GamesMap ] :
        n \in 1..MaxN, inj \in BOOLEAN }

OptConfigs == BaseConfigs \cup SmallRuleConfigs \cup FootballConfigs \cup ShortPoolConfigs

OptOff ==
    /\ o_cfg = [n |-> 0]
    /\ o_maxexp = <<>>
    /\ o_fppg = <<>>
    /\ context = [lineups_generated |-> 0]
    /\ yielded = <<>>
    /\ o_pc = "off"
    /\ solves = 0
    /\ lineups = <<>>
    /\ gen_msg = "none"

\* players_df.max_exposure ('Max Exposure' column): set for the first row of
\* the small salary file, absent from the football one
MaxExposureColumns(cfg) ==
    {[p \in OptIds |-> IF p = 1 THEN e ELSE NoneVal] :
        e \in (IF cfg \in BaseConfigs THEN ExposureChoices ELSE {NoneVal})}

OptInit ==
    /\ o_cfg \in OptConfigs
    /\ o_maxexp \in MaxExposureColumns(o_cfg)
    /\ o_fppg \in (IF o_cfg.randomness THEN PerturbedFppg ELSE {BaseFppg})
    /\ context = InitialContext(o_cfg)
    /\ yielded = <<>>
    /\ o_pc = "solve"
    /\ solves = 0
    /\ lineups = <<>>
    /\ gen_msg = "none"

\* one iteration up to the yield, optimize lines 249-281, a solution exists
OptSolve ==
    /\ o_pc = "solve"
    /\ \E S \in OptimalSets(o_cfg, o_maxexp, o_fppg, context) :
          yielded' = Append(yielded, MakeLineup(S, o_fppg))
    /\ o_pc' = "yielded"
    /\ solves' = solves + 1
    /\ UNCHANGED <<o_cfg, o_maxexp, o_fppg, context, lineups, gen_msg>>
    /\ UNCHANGED dvars
    /\ UNCHANGED mvars

\* an optimize that answers an infeasible solve by solving again
OptInfeasibleRetry ==
    /\ o_pc = "solve"
    /\ FeasibleSets(o_cfg, o_maxexp, context) = {}
    /\ o_pc' = "solve"
    /\ solves' = solves + 1
    /\ UNCHANGED <<o_cfg, o_maxexp, o_fppg, context, yielded, lineups, gen_msg>>
    /\ UNCHANGED dvars
    /\ UNCHANGED mvars

\* optimize lines 274-276: raise ValueError("Infeasible solution; ...")
OptInfeasible ==
    /\ o_pc = "solve"
    /\ FeasibleSets(o_cfg, o_maxexp, context) = {}
    /\ o_pc' = "raised"
    /\ solves' = solves + 1
    /\ UNCHANGED <<o_cfg, o_maxexp, o_fppg, context, yielded, lineups, gen_msg>>
    /\ UNCHANGED dvars
    /\ UNCHANGED mvars

\* a resume that counts the lineup and not its players
OptResumeUsesStale ==
    /\ o_pc = "yielded"
    /\ context' = [lineups_generated |-> context.lineups_generated + 1,
                   player_uses |-> context.player_uses]
    /\ o_pc' = IF context.lineups_generated + 1 < o_cfg.n THEN "solve" ELSE "done"
    /\ UNCHANGED <<o_cfg, o_maxexp, o_fppg, yielded, solves, lineups, gen_msg>>
    /\ UNCHANGED dvars
    /\ UNCHANGED mvars

\* the generator resumed after the yield, optimize lines 283-285, and the
\* loop test of line 248
OptResume ==
    /\ o_pc = "yielded"
    /\ LET last == yielded[Len(yielded)].players
       IN  context' =
             [lineups_generated |-> context.lineups_generated + 1,
              player_uses |-> [p \in DOMAIN context.player_uses |->
                  context.player_uses[p] + (IF p \in last THEN 1 ELSE 0)]]
    /\ o_pc' = IF context.lineups_generated + 1 < o_cfg.n THEN "solve" ELSE "done"
    /\ UNCHANGED <<o_cfg, o_maxexp, o_fppg, yielded, solves, lineups, gen_msg>>
    /\ UNCHANGED dvars
    /\ UNCHANGED mvars

\* nflstacks.py lines 338-341: list(optimizer.optimize(...)) ran to the end
\* of the generator, st.success
GenerateSuccess ==
    /\ o_pc = "done" /\ gen_msg = "none"
    /\ lineups' = yielded
    /\ gen_msg' = "success"
    /\ UNCHANGED <<o_cfg, o_maxexp, o_fppg, context, yielded, o_pc, solves>>
    /\ UNCHANGED dvars
    /\ UNCHANGED mvars

\* nflstacks.py lines 342-344: the generator raised inside list(...), so the
\* list under construction is dropped; st.error and lineups = []
GenerateError ==
    /\ o_pc = "raised" /\ gen_msg = "none"
    /\ lineups' = <<>>
    /\ gen_msg' = "error"
    /\ UNCHANGED <<o_cfg, o_maxexp, o_fppg, context, yielded, o_pc, solves>>
    /\ UNCHANGED dvars
    /\ UNCHANGED mvars

DivOff ==
    /\ d_impl = "off"
    /\ d_par = <<>>
    /\ df_in = <<>>
    /\ df = <<>>
    /\ exposure = <<>>
    /\ pair_exposure = <<>>
    /\ d_li = 0
    /\ d_todo = <<>>
    /\ lineup_players = {}
    /\ d_mod = {}
    /\ d_last = [kind |-> "none"]
    /\ d_pc = "off"
    /\ warnings = [players |-> {}, pairs |-> {}]

MvpOff ==
    /\ m_cfg = [num_lineups |-> 0]
    /\ m_pool = <<>>
    /\ m_filtered = <<>>
    /\ m_msg = "none"
    /\ m_pc = "off"

InitOpt == OptInit /\ DivOff /\ MvpOff
NextOpt == OptSolve \/ OptInfeasible \/ OptResume \/ GenerateSuccess \/ GenerateError
SpecOpt == InitOpt /\ [][NextOpt]_vars

\* list(optimizer.optimize(...)) drives the generator until it is exhausted
\* or raises, and a solve of a finite binary program returns; taken over
\* the calls with randomness=False and with_injured=False
InitOptFair == InitOpt /\ ~o_cfg.randomness /\ ~o_cfg.with_injured
SpecOptFair == InitOptFair /\ [][NextOpt]_vars /\ WF_vars(NextOpt)

----------------------------------------------------------------------------
(* Diversification: the player table, the batch, the ledger *)

\* The salary file as player_info sees it: rows 1-19 are the players the
\* lineups are made of and their alternatives, rows 20-32 the slate's dearest
\* players, which brings every position to six players or more.  `position` is the Position field
\* split at "/" (one token per listed position, none for an empty field),
\* has_id tells whether player_info[...]["id"] is set.
DivTable == <<
    [name |-> "d1", position |-> <<"DST">>, team |-> "A", salary |-> 2, fppg |-> 3, has_id |-> TRUE],
    [name |-> "d2", position |-> <<"DST">>, team |-> "B", salary |-> 2, fppg |-> 2, has_id |-> TRUE],
    [name |-> "q1", position |-> <<"QB">>,  team |-> "A", salary |-> 3, fppg |-> 6, has_id |-> TRUE],
    [name |-> "q2", position |-> <<"QB">>,  team |-> "B", salary |-> 3, fppg |-> 5, has_id |-> FALSE],
    [name |-> "r1", position |-> <<"RB">>,  team |-> "A", salary |-> 3, fppg |-> 5, has_id |-> FALSE],
    [name |-> "r2", position |-> <<"RB">>,  team |-> "B", salary |-> 2, fppg |-> 4, has_id |-> TRUE],
    [name |-> "r3", position |-> <<"RB">>,  team |-> "C", salary |-> 2, fppg |-> 3, has_id |-> TRUE],
    [name |-> "r4", position |-> <<"RB">>,  team |-> "B", salary |-> 2, fppg |-> 3, has_id |-> TRUE],
    [name |-> "r5", position |-> <<"RB">>,  team |-> "A", salary |-> 2, fppg |-> 2, has_id |-> TRUE],
    [name |-> "t1", position |-> <<"TE">>,  team |-> "B", salary |-> 2, fppg |-> 3, has_id |-> TRUE],
    [name |-> "t2", position |-> <<"TE">>,  team |-> "C", salary |-> 2, fppg |-> 2, has_id |-> TRUE],
    [name |-> "w1", position |-> <<"WR">>,  team |-> "A", salary |-> 3, fppg |-> 5, has_id |-> TRUE],
    [name |-> "w2", position |-> <<"WR">>,  team |-> "B", salary |-> 2, fppg |-> 4, has_id |-> TRUE],
    [name |-> "w3", position |-> <<"WR">>,  team |-> "",  salary |-> 2, fppg |-> 3, has_id |-> FALSE],
    [name |-> "w4", position |-> <<"WR">>,  team |-> "A", salary |-> 1, fppg |-> 2, has_id |-> TRUE],
    [name |-> "w5", position |-> <<"WR">>,  team |-> "C", salary |-> 2, fppg |-> 3, has_id |-> TRUE],
    [name |-> "w6", position |-> <<"WR">>,  team |-> "B", salary |-> 2, fppg |-> 2, has_id |-> TRUE],
    [name |-> "w7", position |-> <<"WR">>,  team |-> "A", salary |-> 3, fppg |-> 4, has_id |-> FALSE],
    [name |-> "z1", position |-> <<>>,      team |-> "C", salary |-> 1, fppg |-> 1, has_id |-> TRUE],
    [name |-> "zd3", position |-> <<"DST">>, team |-> "C", salary |-> 9, fppg |-> 9, has_id |-> TRUE],
    [name |-> "zd4", position |-> <<"DST">>, team |-> "D", salary |-> 9, fppg |-> 9, has_id |-> TRUE],
    [name |-> "zd5", position |-> <<"DST">>, team |-> "E", salary |-> 9, fppg |-> 9, has_id |-> TRUE],
    [name |-> "zd6", position |-> <<"DST">>, team |-> "F", salary |-> 9, fppg |-> 9, has_id |-> TRUE],
    [name |-> "zq3", position |-> <<"QB">>,  team |-> "C", salary |-> 9, fppg |-> 9, has_id |-> TRUE],
    [name |-> "zq4", position |-> <<"QB">>,  team |-> "D", salary |-> 9, fppg |-> 9, has_id |-> TRUE],
    [name |-> "zq5", position |-> <<"QB">>,  team |-> "E", salary |-> 9, fppg |-> 9, has_id |-> TRUE],
    [name |-> "zq6", position |-> <<"QB">>,  team |-> "F", salary |-> 9, fppg |-> 9, has_id |-> TRUE],
    [name |-> "zr6", position |-> <<"RB">>,  team |-> "D", salary |-> 9, fppg |-> 9, has_id |-> TRUE],
    [name |-> "zt3", position |-> <<"TE">>,  team |-> "A", salary |-> 9, fppg |-> 9, has_id |-> TRUE],
    [name |-> "zt4", position |-> <<"TE">>,  team |-> "D", salary |-> 9, fppg |-> 9, has_id |-> TRUE],
    [name |-> "zt5", position |-> <<"TE">>,  team |-> "E", salary |-> 9, fppg |-> 9, has_id |-> TRUE],
    [name |-> "zt6", position |-> <<"TE">>,  team |-> "F", salary |-> 9, fppg |-> 9, has_id |-> TRUE] >>

DivIds == DOMAIN DivTable
DivSalary == [p \in DivIds |-> DivTable[p].salary]
DivFppg == [p \in DivIds |-> DivTable[p].fppg]
Positions(p) == Range(DivTable[p].position)

\* the slot columns of the wide batch, in column order
slot_order == <<"QB", "RB1", "RB2", "WR1", "WR2", "WR3", "TE", "FLEX", "DST">>
SlotIdx == DOMAIN slot_order

SLOT_TO_ALLOWED_POS ==
    [QB |-> {"QB"}, RB1 |-> {"RB"}, RB2 |-> {"RB"}, WR1 |-> {"WR"}, WR2 |-> {"WR"},
     WR3 |-> {"WR"}, TE |-> {"TE"}, FLEX |-> {"RB", "WR", "TE"}, DST |-> {"DST"}]

\* name_key / name_key_from_cell / val.split("(")[0].strip(): the text of a
\* cell before its "(" suffix.  A cell is the name with the kind of suffix it
\* carries: "id" for name(pid), "team" for name (TEAM), "plain" for none.
\* The names of the table hold no "(" themselves.
name_key(cell) == cell.name

\* tuple(sorted([a, b]))
SortedPair(a, b) == IF a <= b THEN <<a, b>> ELSE <<b, a>>
AllPairs == {pr \in DivIds \X DivIds : pr[1] <= pr[2]}

\* names of a row's slot cells, in column order
RowNames(row) == [i \in SlotIdx |-> name_key(row.cells[i])]

\* how many index pairs a < b of the list form the sorted pair pr (none when
\* one of the two names is not in the list)
PairCount(names, pr) ==
    IF pr[1] \notin Range(names) \/ pr[2] \notin Range(names) THEN 0
    ELSE Cardinality({ab \in (DOMAIN names) \X (DOMAIN names) :
                        ab[1] < ab[2] /\ SortedPair(names[ab[1]], names[ab[2]]) = pr})

\* compute_exposures / compute_exposures_and_pairs / nflstacks lines 137-154
compute_exposures(batch) ==
    LET line_players == [r \in DOMAIN batch |-> RowNames(batch[r])]
    IN  [ players |-> [p \in DivIds |->
              SumOver(DOMAIN batch, [r \in DOMAIN batch |->
                  Cardinality({i \in SlotIdx : line_players[r][i] = p})])],
          pairs |-> [pr \in AllPairs |->
              SumOver(DOMAIN batch, [r \in DOMAIN batch |->
                  PairCount(line_players[r], pr)])] ]

\* sums of the table's salary / fppg over a list of names
SalaryOf(names) == SumSeq(names, DivSalary)
PointsOf(names) == SumSeq(names, DivFppg)

\* count / total_lineups > limit, the limit being num / ExposureDen
Exceeds(count, total, num, den) == count * den > num * total

\* a list without every occurrence of x
RECURSIVE Without(_, _)
Without(names, x) ==
    IF names = <<>> THEN <<>>
    ELSE IF Head(names) = x THEN Without(Tail(names), x)
         ELSE <<Head(names)>> \o Without(Tail(names), x)

\* a list of names with the name at slot s replaced
WithSlot(names, s, p) == [i \in DOMAIN names |-> IF i = s THEN p ELSE names[i]]

\* max(0, c - 1)
DecFloor(c) == IF c - 1 < 0 THEN 0 ELSE c - 1

\* the loops' bookkeeping after a slot visit; `orders` are the orders in which
\* the next lineup's slots may be visited
Advance(batch, orders) ==
    IF Tail(d_todo) # <<>>
    THEN /\ d_todo' = Tail(d_todo)
         /\ UNCHANGED <<d_li, d_pc, lineup_players>>
    ELSE IF d_li < Len(batch)
    THEN /\ d_li' = d_li + 1
         /\ d_todo' \in orders
         /\ lineup_players' =
               (IF d_impl = "stacks" THEN Range(RowNames(batch[d_li + 1])) ELSE {})
         /\ UNCHANGED d_pc
    ELSE /\ d_pc' = (IF d_impl = "wide" THEN "final" ELSE "done")
         /\ d_todo' = <<>>
         /\ UNCHANGED <<d_li, lineup_players>>

----------------------------------------------------------------------------
(* The batches handed to a pass *)

\* bound of the diversification model: the largest batch
MaxLineups == 2

\* max_exposure values (0.7 and 1.0) and max_pair_exposure values (the
\* default 0.6 and 1.0)
ExposureLevels == {Frac(7, 10), Frac(1, 1)}
PairExposureLevels == {Frac(3, 5), Frac(1, 1)}
\* (salary_min, salary_cap)
SalaryWindows == {<<19, 21>>, <<20, 22>>}

\* Lineups as the Generate handlers lay them out: one player per slot column,
\* by index in DivTable, in the order of slot_order.
GeneratedLineups == <<
    <<3, 5, 6, 12, 13, 14, 10, 7, 1>>,
    <<4, 7, 8, 15, 16, 17, 11, 12, 2>>,
    <<4, 8, 9, 15, 16, 17, 11, 18, 2>> >>

\* the cell text a Generate handler writes: nfl.py lines 213-235 put
\* name(pid) in QB/DST/TE and the bare name elsewhere; div_lineup.py
\* (lines 441-442) and nflstacks.py (line 356) always append the id
GeneratedCell(impl, i, p) ==
    [name |-> p,
     suffix |-> IF impl = "nfl" /\ slot_order[i] \notin {"QB", "DST", "TE"}
                THEN "plain" ELSE "id"]

\* a row of the wide batch with its totals: nfl.py lines 236-241 and
\* div_lineup.py lines 500-507 sum the table, nflstacks.py lines 365-366
\* store the optimizer's salary_cost and fantasy_points; `off` is what the
\* optimizer's points differ by from the table's sum
GeneratedRow(impl, lineup, off) ==
    [cells |-> [i \in SlotIdx |-> GeneratedCell(impl, i, lineup[i])],
     TotalSalary |-> SalaryOf(lineup),
     ProjectedPoints |-> PointsOf(lineup) + off]

\* what the stored ProjectedPoints of a batch differ by from the table's sums:
\* nothing where the handler sums the table, possibly something in
\* nflstacks.py, whose optimizer randomizes the points (line 333)
PointsDeviations(impl) == IF impl = "stacks" THEN {0, 1} ELSE {0}

\* the batches of up to MaxLineups rows, the rows taken from
\* GeneratedLineups in non-decreasing order
GeneratedBatches(impl) ==
    UNION { { [r \in 1..k |-> GeneratedRow(impl, GeneratedLineups[pick[r]], off)] :
                pick \in {f \in [1..k -> DOMAIN GeneratedLineups] :
                             \A a, b \in 1..k : a <= b => f[a] <= f[b]},
                off \in PointsDeviations(impl) } :
              k \in 1..MaxLineups }

DivParams ==
    { [max_exposure |-> e, max_pair_exposure |-> pe, salary_min |-> w[1], salary_cap |-> w[2]] :
        e \in ExposureLevels, pe \in PairExposureLevels, w \in SalaryWindows }

\* the defaults of the two targets, max_exposure=0.4 and max_pair_exposure=0.6
\* (div_lineup.py lines 169-170)
DefaultTargets ==
    { [max_exposure |-> Frac(2, 5), max_pair_exposure |-> Frac(3, 5),
       salary_min |-> w[1], salary_cap |-> w[2]] : w \in SalaryWindows }

\* the parameters a pass is called with; the defaults are drawn for
\* div_lineup.py
DivParamsOf(impl) == IF impl = "wide" THEN DivParams \cup DefaultTargets ELSE DivParams

\* the column order, as a list of slot indices
ColumnOrder == [i \in SlotIdx |-> i]
ReverseOrder == [i \in SlotIdx |-> Len(slot_order) + 1 - i]

\* The order in which a lineup's slots are visited: the column order in
\* nfl.py and nflstacks.py; random.sample(slot_cols, len(slot_cols)) in
\* div_lineup.py, drawn here from two of the permutations.
SlotOrders(impl) == IF impl = "wide" THEN {ColumnOrder, ReverseOrder} ELSE {ColumnOrder}

\* the state on entry to the loop over lineups: the batch copied, the ledger
\* computed, the first lineup's names read
DivInit(impl) ==
    /\ d_impl = impl
    /\ d_par \in DivParamsOf(impl)
    /\ df_in \in GeneratedBatches(impl)
    /\ df = df_in
    /\ exposure = compute_exposures(df_in).players
    /\ pair_exposure = compute_exposures(df_in).pairs
    /\ d_li = 1
    /\ d_todo \in SlotOrders(impl)
    /\ lineup_players = (IF impl = "stacks" THEN Range(RowNames(df_in[1])) ELSE {})
    /\ d_mod = {}
    /\ d_last = [kind |-> "none", li |-> 0, slot |-> 0, orig |-> 0, cand |-> 0]
    /\ d_pc = "slot"
    /\ warnings = [players |-> {}, pairs |-> {}]

total_lineups == Len(df)

Visit(kind, s, orig, cand) ==
    [kind |-> kind, li |-> d_li, slot |-> s, orig |-> orig, cand |-> cand]

\* the slot visited next
NextSlot == Head(d_todo)

\* pairs of `name` with the other names of the list
PairsWith(name, names) == {SortedPair(name, o) : o \in Range(names) \ {name}}

\* an occupant at a ceiling is flagged as well
FlaggedAtCeiling(name, pairs) ==
    \/ exposure[name] * d_par.max_exposure.den >= d_par.max_exposure.num * total_lineups
    \/ \E pr \in pairs :
          pair_exposure[pr] * d_par.max_pair_exposure.den
             >= d_par.max_pair_exposure.num * total_lineups

\* player_exp > max_exposure or a pair of the occupant over max_pair_exposure
Flagged(name, pairs) ==
    \/ Exceeds(exposure[name], total_lineups, d_par.max_exposure.num, d_par.max_exposure.den)
    \/ \E pr \in pairs :
          Exceeds(pair_exposure[pr], total_lineups,
                  d_par.max_pair_exposure.num, d_par.max_pair_exposure.den)

\* only the cap is looked at
InSalaryRangeCapOnly(sal) == sal <= d_par.salary_cap

\* salary_min <= salary <= salary_cap
InSalaryRange(sal) == d_par.salary_min <= sal /\ sal <= d_par.salary_cap

----------------------------------------------------------------------------
(* src/nfl.py: diversify_lineups *)

\* lines 97-100
NflCandidatesBySlot(slot) ==
    {p \in DivIds : Positions(p) \cap SLOT_TO_ALLOWED_POS[slot] # {}}

\* lines 125-143: the simulated lineup passes the salary and pair tests
NflSimOk(names, orig, cand) ==
    LET sim_players == Without(names, orig) \o <<cand>>
        lineup_pairs == PairsWith(orig, names)
    IN  /\ InSalaryRange(SalaryOf(sim_players))
        /\ \A a, b \in DOMAIN sim_players :
              a < b =>
                LET pr == SortedPair(sim_players[a], sim_players[b])
                    prospective == pair_exposure[pr] + (IF pr \notin lineup_pairs THEN 1 ELSE 0)
                IN  ~Exceeds(prospective, total_lineups,
                             d_par.max_pair_exposure.num, d_par.max_pair_exposure.den)

\* a candidate that lists the occupant's own lineup is no extra filter
NflNotInLineupLoose(names, orig, cand) == cand # orig

\* line 122: if cand == orig_name or cand in current_names: continue
NflNotInLineup(names, orig, cand) == cand # orig /\ cand \notin Range(names)

\* the candidates of lines 118-143 that would be accepted
NflAcceptable(s, names) ==
    {cand \in NflCandidatesBySlot(slot_order[s]) :
        /\ NflNotInLineup(names, names[s], cand)
        /\ NflSimOk(names, names[s], cand)}

\* lines 145-147
NflNewCell(cand) ==
    [name |-> cand,
     suffix |-> IF DivTable[cand].team # "" THEN "team" ELSE "plain"]

\* the new pairs counted up, the removed player's pairs left as they were
RECURSIVE NflPairUpdateNoDec(_, _, _, _)
NflPairUpdateNoDec(pe, others, orig, cand) ==
    IF others = <<>> THEN pe
    ELSE LET other == Head(others)
             new_pair == SortedPair(cand, other)
             pe2 == [pe EXCEPT ![new_pair] = @ + 1]
         IN  IF other = orig THEN NflPairUpdateNoDec(pe, Tail(others), orig, cand)
             ELSE NflPairUpdateNoDec(pe2, Tail(others), orig, cand)

\* lines 152-157, one `other` after the other
RECURSIVE NflPairUpdate(_, _, _, _)
NflPairUpdate(pe, others, orig, cand) ==
    IF others = <<>> THEN pe
    ELSE LET other == Head(others)
             old_pair == SortedPair(orig, other)
             new_pair == SortedPair(cand, other)
             pe1 == [pe EXCEPT ![old_pair] = DecFloor(@)]
             pe2 == [pe1 EXCEPT ![new_pair] = @ + 1]
         IN  IF other = orig THEN NflPairUpdate(pe, Tail(others), orig, cand)
             ELSE NflPairUpdate(pe2, Tail(others), orig, cand)

\* totals computed from names that miss the incoming player
NflTotalsStale(names, cells) == [salary |-> SalaryOf(names), points |-> PointsOf(names)]

\* lines 159-161: current_names re-read from the row, then summed
NflTotals(names, cells) ==
    LET current_names == [i \in SlotIdx |-> name_key(cells[i])]
    IN  [salary |-> SalaryOf(current_names), points |-> PointsOf(current_names)]

\* lines 113-114: the occupant is within both targets
NflKeep ==
    /\ d_impl = "nfl" /\ d_pc = "slot"
    /\ LET s == NextSlot
           names == RowNames(df[d_li])
       IN  /\ ~Flagged(names[s], PairsWith(names[s], names))
           /\ d_last' = Visit("keep", s, names[s], 0)
           /\ Advance(df, {ColumnOrder})
    /\ UNCHANGED <<d_impl, d_par, df_in, df, exposure, pair_exposure, d_mod>>
    /\ UNCHANGED warnings
    /\ UNCHANGED ovars
    /\ UNCHANGED mvars

\* lines 115-116: random.random() > randomness
NflThrottle ==
    /\ d_impl = "nfl" /\ d_pc = "slot"
    /\ LET s == NextSlot
           names == RowNames(df[d_li])
       IN  /\ Flagged(names[s], PairsWith(names[s], names))
           /\ d_last' = Visit("throttle", s, names[s], 0)
           /\ Advance(df, {ColumnOrder})
    /\ UNCHANGED <<d_impl, d_par, df_in, df, exposure, pair_exposure, d_mod>>
    /\ UNCHANGED warnings
    /\ UNCHANGED ovars
    /\ UNCHANGED mvars

\* lines 118-143 with every candidate skipped
NflNoCandidate ==
    /\ d_impl = "nfl" /\ d_pc = "slot"
    /\ LET s == NextSlot
           names == RowNames(df[d_li])
       IN  /\ Flagged(names[s], PairsWith(names[s], names))
           /\ NflAcceptable(s, names) = {}
           /\ d_last' = Visit("rejected", s, names[s], 0)
           /\ Advance(df, {ColumnOrder})
    /\ UNCHANGED <<d_impl, d_par, df_in, df, exposure, pair_exposure, d_mod>>
    /\ UNCHANGED warnings
    /\ UNCHANGED ovars
    /\ UNCHANGED mvars

\* lines 118-162: the first acceptable candidate of the shuffled list
NflAccept ==
    /\ d_impl = "nfl" /\ d_pc = "slot"
    /\ LET s == NextSlot
           names == RowNames(df[d_li])
           orig_name == names[s]
       IN  /\ Flagged(orig_name, PairsWith(orig_name, names))
           /\ \E cand \in NflAcceptable(s, names) :
                LET cells == [df[d_li].cells EXCEPT ![s] = NflNewCell(cand)]
                    tot == NflTotals(names, cells)
                    row == [cells |-> cells, TotalSalary |-> tot.salary,
                            ProjectedPoints |-> tot.points]
                IN  /\ df' = [df EXCEPT ![d_li] = row]
                    /\ exposure' = [exposure EXCEPT ![orig_name] = DecFloor(@),
                                                    ![cand] = @ + 1]
                    /\ pair_exposure' = NflPairUpdate(pair_exposure, names, orig_name, cand)
                    /\ d_last' = Visit("accept", s, orig_name, cand)
                    /\ d_mod' = d_mod \cup {d_li}
                    /\ Advance(df, {ColumnOrder})
    /\ UNCHANGED <<d_impl, d_par, df_in>>
    /\ UNCHANGED warnings
    /\ UNCHANGED ovars
    /\ UNCHANGED mvars

----------------------------------------------------------------------------
(* src/div_lineup.py: diversify_lineups_wide *)

\* a player with no position information is a candidate for every slot
WideCandidatesFallbackAnySlot(slot) ==
    {p \in DivIds :
        \/ Positions(p) = {}
        \/ Positions(p) \cap SLOT_TO_ALLOWED_POS[slot] # {}}

\* lines 183-195: a player with no position information is a candidate for
\* FLEX, the others need a position the slot allows
WideCandidatesBySlot(slot) ==
    {p \in DivIds :
        \/ Positions(p) = {} /\ slot = "FLEX"
        \/ Positions(p) \cap SLOT_TO_ALLOWED_POS[slot] # {}}

\* lines 230-235
WideNotInLineup(names, orig, cand) == cand # orig /\ cand \notin Range(names)

\* the candidate's exposure tested as it is, without the lineup it would enter
WideCandExposureOkCurrent(cand) ==
    ~Exceeds(exposure[cand], total_lineups,
             d_par.max_exposure.num, d_par.max_exposure.den)

\* lines 236-239: cand_new_exp > max_exposure rejects
WideCandExposureOk(cand) ==
    ~Exceeds(exposure[cand] + 1, total_lineups,
             d_par.max_exposure.num, d_par.max_exposure.den)

\* set of the sorted pairs of a list of names (lines 249-252)
PairSet(names) ==
    {SortedPair(names[ab[1]], names[ab[2]]) :
        ab \in {x \in (DOMAIN names) \X (DOMAIN names) : x[1] < x[2]}}

\* lines 254-260 and 281-288: old pairs down (not below 0), new pairs up
WidePairUpdate(pe, old_pairs, new_pairs) ==
    [pr \in AllPairs |->
        (IF pr \in old_pairs THEN DecFloor(pe[pr]) ELSE pe[pr])
        + (IF pr \in new_pairs THEN 1 ELSE 0)]

\* lines 241-265: salary window and the pair ceiling over the whole ledger
WideSimOk(names, orig, cand) ==
    LET sim_players == Without(names, orig) \o <<cand>>
        temp_pair_counts ==
            WidePairUpdate(pair_exposure, PairsWith(orig, names), PairSet(sim_players))
    IN  /\ ~(SalaryOf(sim_players) < d_par.salary_min \/ SalaryOf(sim_players) > d_par.salary_cap)
        /\ \A pr \in AllPairs :
              ~Exceeds(temp_pair_counts[pr], total_lineups,
                       d_par.max_pair_exposure.num, d_par.max_pair_exposure.den)

\* the candidates whose pair simulation (lines 248-265) is run: in the slot's
\* list, not in the lineup, within the exposure and salary tests
WideSimulated(s, names) ==
    {cand \in WideCandidatesBySlot(slot_order[s]) :
        /\ WideNotInLineup(names, names[s], cand)
        /\ WideCandExposureOk(cand)
        /\ InSalaryRange(SalaryOf(Without(names, names[s]) \o <<cand>>))}

\* a simulation that counts in the ledger itself
WideLedgerSimulatedInPlace(pe, s, names) ==
    IF WideSimulated(s, names) = {} THEN pe
    ELSE LET cand == CHOOSE c \in WideSimulated(s, names) : TRUE
         IN  WidePairUpdate(pe, PairsWith(names[s], names),
                            PairSet(Without(names, names[s]) \o <<cand>>))

\* line 254: temp_pair_counts = pair_exposure.copy(); the simulations of the
\* candidates tried at slot s write the copy, the ledger is as it was
WideLedgerAfterRejections(pe, s, names) == pe

WideAcceptable(s, names) ==
    {cand \in WideCandidatesBySlot(slot_order[s]) :
        /\ WideNotInLineup(names, names[s], cand)
        /\ WideCandExposureOk(cand)
        /\ WideSimOk(names, names[s], cand)}

\* lines 268-275
WideNewCell(cand) ==
    [name |-> cand,
     suffix |-> IF DivTable[cand].has_id THEN "id"
                ELSE IF DivTable[cand].team # "" THEN "team" ELSE "plain"]

\* lines 291-295 and 304-308: totals summed over the row's current names
WideTotals(cells) ==
    LET current_names == [i \in SlotIdx |-> name_key(cells[i])]
    IN  [salary |-> SalaryOf(current_names), points |-> PointsOf(current_names)]

\* lines 216-217
WideKeep ==
    /\ d_impl = "wide" /\ d_pc = "slot"
    /\ LET s == NextSlot
           names == RowNames(df[d_li])
       IN  /\ ~Flagged(names[s], PairsWith(names[s], names))
           /\ d_last' = Visit("keep", s, names[s], 0)
           /\ Advance(df, SlotOrders("wide"))
    /\ UNCHANGED <<d_impl, d_par, df_in, df, exposure, pair_exposure, d_mod>>
    /\ UNCHANGED warnings
    /\ UNCHANGED ovars
    /\ UNCHANGED mvars

\* lines 218-220
WideThrottle ==
    /\ d_impl = "wide" /\ d_pc = "slot"
    /\ LET s == NextSlot
           names == RowNames(df[d_li])
       IN  /\ Flagged(names[s], PairsWith(names[s], names))
           /\ d_last' = Visit("throttle", s, names[s], 0)
           /\ Advance(df, SlotOrders("wide"))
    /\ UNCHANGED <<d_impl, d_par, df_in, df, exposure, pair_exposure, d_mod>>
    /\ UNCHANGED warnings
    /\ UNCHANGED ovars
    /\ UNCHANGED mvars

\* lines 222-265 with every candidate skipped
WideNoCandidate ==
    /\ d_impl = "wide" /\ d_pc = "slot"
    /\ LET s == NextSlot
           names == RowNames(df[d_li])
       IN  /\ Flagged(names[s], PairsWith(names[s], names))
           /\ WideAcceptable(s, names) = {}
           /\ pair_exposure' = WideLedgerAfterRejections(pair_exposure, s, names)
           /\ d_last' = Visit("rejected", s, names[s], 0)
           /\ Advance(df, SlotOrders("wide"))
    /\ UNCHANGED <<d_impl, d_par, df_in, df, exposure, d_mod>>
    /\ UNCHANGED warnings
    /\ UNCHANGED ovars
    /\ UNCHANGED mvars

\* lines 222-298: the first acceptable candidate of the shuffled list
WideAccept ==
    /\ d_impl = "wide" /\ d_pc = "slot"
    /\ LET s == NextSlot
           names == RowNames(df[d_li])
           original == names[s]
       IN  /\ Flagged(original, PairsWith(original, names))
           /\ \E cand \in WideAcceptable(s, names) :
                LET cells == [df[d_li].cells EXCEPT ![s] = WideNewCell(cand)]
                    tot == WideTotals(cells)
                    row == [cells |-> cells, TotalSalary |-> tot.salary,
                            ProjectedPoints |-> tot.points]
                    sim_players == Without(names, original) \o <<cand>>
                IN  /\ df' = [df EXCEPT ![d_li] = row]
                    /\ exposure' = [exposure EXCEPT ![original] = DecFloor(@),
                                                    ![cand] = @ + 1]
                    /\ pair_exposure' =
                          WidePairUpdate(pair_exposure, PairsWith(original, names),
                                         PairSet(sim_players))
                    /\ d_last' = Visit("accept", s, original, cand)
                    /\ d_mod' = d_mod \cup {d_li}
                    /\ Advance(df, SlotOrders("wide"))
    /\ UNCHANGED <<d_impl, d_par, df_in>>
    /\ UNCHANGED warnings
    /\ UNCHANGED ovars
    /\ UNCHANGED mvars

\* lines 302-308: the final pass over every row
WideFinal ==
    /\ d_impl = "wide" /\ d_pc = "final"
    /\ df' = [i \in DOMAIN df |->
                [cells |-> df[i].cells,
                 TotalSalary |-> WideTotals(df[i].cells).salary,
                 ProjectedPoints |-> WideTotals(df[i].cells).points]]
    /\ d_pc' = "done"
    /\ d_last' = [d_last EXCEPT !.kind = "final"]
    /\ UNCHANGED <<d_impl, d_par, df_in, exposure, pair_exposure, d_li, d_todo,
                   lineup_players, d_mod>>
    /\ UNCHANGED warnings
    /\ UNCHANGED ovars
    /\ UNCHANGED mvars

----------------------------------------------------------------------------
(* src/nflstacks.py: diversify_lineups_wide *)

\* player_info[...]["position"]: the Position field as one string
PositionString(p) == DivTable[p].position

\* lines 181-184: the table's other players with the same position string
StacksPossibleReplacements(name) ==
    {p \in DivIds : p # name /\ PositionString(p) = PositionString(name)}

\* lines 192-213: position counts of the lineup with the candidate in place
StacksValidPositions(temp_players) ==
    LET pos_counts == [pos \in {"QB", "RB", "WR", "TE", "DST"} |->
            Cardinality({i \in DOMAIN temp_players :
                            PositionString(temp_players[i]) = <<pos>>})]
    IN  /\ pos_counts["QB"] = 1
        /\ 2 <= pos_counts["RB"] /\ pos_counts["RB"] <= 3
        /\ 3 <= pos_counts["WR"] /\ pos_counts["WR"] <= 4
        /\ pos_counts["TE"] = 1
        /\ pos_counts["DST"] = 1

\* lines 214-220
StacksTempOk(temp_players) ==
    /\ InSalaryRange(SalaryOf(temp_players))
    /\ StacksValidPositions(temp_players)
    /\ \A a, b \in DOMAIN temp_players :
          a < b =>
            LET pair == SortedPair(temp_players[a], temp_players[b])
            IN  ~Exceeds(pair_exposure[pair] + 1, total_lineups,
                         d_par.max_pair_exposure.num, d_par.max_pair_exposure.den)

StacksAcceptable(s, names) ==
    {candidate \in StacksPossibleReplacements(names[s]) :
        StacksTempOk(WithSlot(names, s, candidate))}

\* lines 172-175, with lineup_players as read at the top of the lineup
StacksFlagged(name) ==
    Flagged(name, {SortedPair(name, p) : p \in lineup_players \ {name}})

\* lines 228-231: the lineup's old pairs down, the new lineup's pairs up
StacksPairUpdate(pe, lineup_pairs, temp_players) ==
    [pr \in AllPairs |->
        pe[pr] - (IF pr \in lineup_pairs THEN 1 ELSE 0) + PairCount(temp_players, pr)]

\* line 177 false: nothing to do for this column
StacksKeep ==
    /\ d_impl = "stacks" /\ d_pc = "slot"
    /\ LET s == NextSlot
           name == RowNames(df[d_li])[s]
       IN  /\ ~StacksFlagged(name)
           /\ d_last' = Visit("keep", s, name, 0)
           /\ Advance(df, {ColumnOrder})
    /\ UNCHANGED <<d_impl, d_par, df_in, df, exposure, pair_exposure, d_mod>>
    /\ UNCHANGED warnings
    /\ UNCHANGED ovars
    /\ UNCHANGED mvars

\* line 178 false: random.random() >= randomness
StacksThrottle ==
    /\ d_impl = "stacks" /\ d_pc = "slot"
    /\ LET s == NextSlot
           name == RowNames(df[d_li])[s]
       IN  /\ StacksFlagged(name)
           /\ d_last' = Visit("throttle", s, name, 0)
           /\ Advance(df, {ColumnOrder})
    /\ UNCHANGED <<d_impl, d_par, df_in, df, exposure, pair_exposure, d_mod>>
    /\ UNCHANGED warnings
    /\ UNCHANGED ovars
    /\ UNCHANGED mvars

\* lines 179-220 with no candidate passing
StacksNoCandidate ==
    /\ d_impl = "stacks" /\ d_pc = "slot"
    /\ LET s == NextSlot
           names == RowNames(df[d_li])
       IN  /\ StacksFlagged(names[s])
           /\ StacksAcceptable(s, names) = {}
           /\ d_last' = Visit("rejected", s, names[s], 0)
           /\ Advance(df, {ColumnOrder})
    /\ UNCHANGED <<d_impl, d_par, df_in, df, exposure, pair_exposure, d_mod>>
    /\ UNCHANGED warnings
    /\ UNCHANGED ovars
    /\ UNCHANGED mvars

\* lines 179-232: the first passing candidate of the shuffled list
StacksAccept ==
    /\ d_impl = "stacks" /\ d_pc = "slot"
    /\ LET s == NextSlot
           names == RowNames(df[d_li])
           name == names[s]
           lineup_pairs == {SortedPair(name, p) : p \in lineup_players \ {name}}
       IN  /\ StacksFlagged(name)
           /\ \E candidate \in StacksAcceptable(s, names) :
                LET temp_players == WithSlot(names, s, candidate)
                    cells == [df[d_li].cells EXCEPT
                                 ![s] = [name |-> candidate, suffix |-> "team"]]
                    row == [cells |-> cells,
                            TotalSalary |-> SalaryOf(temp_players),
                            ProjectedPoints |-> PointsOf(temp_players)]
                IN  /\ df' = [df EXCEPT ![d_li] = row]
                    /\ exposure' = [[exposure EXCEPT ![name] = @ - 1]
                                       EXCEPT ![candidate] = @ + 1]
                    /\ pair_exposure' =
                          StacksPairUpdate(pair_exposure, lineup_pairs, temp_players)
                    /\ d_last' = Visit("accept", s, name, candidate)
                    /\ d_mod' = d_mod \cup {d_li}
                    /\ Advance(df, {ColumnOrder})
    /\ UNCHANGED <<d_impl, d_par, df_in>>
    /\ UNCHANGED warnings
    /\ UNCHANGED ovars
    /\ UNCHANGED mvars

----------------------------------------------------------------------------
(* The Diversify Lineups handlers: what is shown with the returned batch *)

\* nflstacks.py lines 407-444: player_usage and pair_usage counted over the
\* diversified frame (name.split(" (")[0] of a cell is its name: both cell
\* formats of nflstacks.py put " (" after the name); a warning for every
\* player over max_exposure and for every pair over 60 percent
StacksWarnings(batch, par) ==
    LET usage == compute_exposures(batch)
    IN  [players |-> {p \in DivIds :
                        Exceeds(usage.players[p], Len(batch),
                                par.max_exposure.num, par.max_exposure.den)},
         pairs |-> {pr \in AllPairs : Exceeds(usage.pairs[pr], Len(batch), 3, 5)}]

\* nflstacks.py lines 394-448
StacksShow ==
    /\ d_impl = "stacks" /\ d_pc = "done"
    /\ warnings' = StacksWarnings(df, d_par)
    /\ d_pc' = "shown"
    /\ UNCHANGED <<d_impl, d_par, df_in, df, exposure, pair_exposure, d_li, d_todo,
                   lineup_players, d_mod, d_last>>
    /\ UNCHANGED ovars
    /\ UNCHANGED mvars

\* div_lineup.py lines 536-557: the frame returned by line 310 is stored,
\* shown with st.dataframe and offered for download; no st.warning
WideShow ==
    /\ d_impl = "wide" /\ d_pc = "done"
    /\ warnings' = [players |-> {}, pairs |-> {}]
    /\ d_pc' = "shown"
    /\ UNCHANGED <<d_impl, d_par, df_in, df, exposure, pair_exposure, d_li, d_todo,
                   lineup_players, d_mod, d_last>>
    /\ UNCHANGED ovars
    /\ UNCHANGED mvars

\* nfl.py lines 258-264: the same, the frame is shown and offered for download
NflShow ==
    /\ d_impl = "nfl" /\ d_pc = "done"
    /\ warnings' = [players |-> {}, pairs |-> {}]
    /\ d_pc' = "shown"
    /\ UNCHANGED <<d_impl, d_par, df_in, df, exposure, pair_exposure, d_li, d_todo,
                   lineup_players, d_mod, d_last>>
    /\ UNCHANGED ovars
    /\ UNCHANGED mvars

\* a handler that starts the next pass from the frame shown last
PressedBatchDiversified(original, diversified) == diversified

\* the frame a press of Diversify Lineups hands to the pass:
\* st.session_state["df_wide_original"].copy() in nfl.py (line 259) and
\* div_lineup.py (line 537), st.session_state["df_wide"] in nflstacks.py
\* (line 395); the Generate handler alone writes these keys, the result of a
\* pass is stored under "df_wide_diversified" or not at all
PressedBatch(original, diversified) == original

\* Diversify Lineups pressed again after a pass was shown, the sliders as
\* they are: the pass copies the frame it is handed and counts the ledger
\* over it
DiversifyAgain ==
    /\ d_pc = "shown"
    /\ LET batch == PressedBatch(df_in, df)
           e == compute_exposures(batch)
       IN  /\ df_in' = batch
           /\ df' = batch
           /\ exposure' = e.players
           /\ pair_exposure' = e.pairs
           /\ lineup_players' =
                 (IF d_impl = "stacks" THEN Range(RowNames(batch[1])) ELSE {})
    /\ d_li' = 1
    /\ d_todo' \in SlotOrders(d_impl)
    /\ d_mod' = {}
    /\ d_last' = [kind |-> "none", li |-> 0, slot |-> 0, orig |-> 0, cand |-> 0]
    /\ d_pc' = "slot"
    /\ warnings' = [players |-> {}, pairs |-> {}]
    /\ UNCHANGED <<d_impl, d_par>>
    /\ UNCHANGED ovars
    /\ UNCHANGED mvars

----------------------------------------------------------------------------
(* The diversification passes together *)

DivImpls == {"nfl", "wide", "stacks"}

InitDiv == OptOff /\ MvpOff /\ \E impl \in DivImpls : DivInit(impl)
NextDiv ==
    \/ NflKeep \/ NflThrottle \/ NflNoCandidate \/ NflAccept
    \/ WideKeep \/ WideThrottle \/ WideNoCandidate \/ WideAccept \/ WideFinal
    \/ StacksKeep \/ StacksThrottle \/ StacksNoCandidate \/ StacksAccept
    \/ NflShow \/ WideShow \/ StacksShow
    \/ DiversifyAgain
SpecDiv == InitDiv /\ [][NextDiv]_vars

----------------------------------------------------------------------------
(* src/mvp.py: the Generate handler, its salary filter and its pair filter *)

\* the players of the uploaded file: p.id is the index, with p.salary and
\* p.fppg
MvpPlayers == <<
    [salary |-> 3, fppg |-> 6],
    [salary |-> 3, fppg |-> 5],
    [salary |-> 2, fppg |-> 4],
    [salary |-> 2, fppg |-> 3],
    [salary |-> 1, fppg |-> 2],
    [salary |-> 2, fppg |-> 2] >>
MvpIds == DOMAIN MvpPlayers
MvpSalary == [p \in MvpIds |-> MvpPlayers[p].salary]
MvpFppg == [p \in MvpIds |-> MvpPlayers[p].fppg]

\* The lineups the library's optimizer can build from the file, best first;
\* a lineup is lineup.players, the players in the order of the slots they
\* were given (three slots here).  Two lineups never hold the same set of
\* players; two players may stand in either order.
MvpCatalogue == <<
    <<1, 2, 3>>, <<2, 1, 4>>, <<1, 3, 4>>, <<1, 2, 5>>, <<1, 2, 6>>, <<2, 3, 4>>,
    <<3, 1, 5>>, <<1, 4, 5>>, <<2, 3, 5>>, <<4, 2, 5>>, <<3, 4, 5>> >>

\* bound of the handler model: the largest num_lineups of the slider
MvpMaxLineups == 2
\* (min_salary, max_salary)
MvpSalaryWindows == {<<6, 8>>, <<7, 8>>}

\* lines 67-71: max_player_pairs is a slider over 1..num_lineups
MvpConfigs ==
    { [num_lineups |-> n, max_player_pairs |-> k, min_salary |-> w[1], max_salary |-> w[2]] :
        n \in 1..MvpMaxLineups, k \in 1..MvpMaxLineups, w \in MvpSalaryWindows }

\* the entries of a list whose index is in S, in the list's order
RECURSIVE Pick(_, _, _)
Pick(seq, S, i) ==
    IF i > Len(seq) THEN <<>>
    ELSE (IF i \in S THEN <<seq[i]>> ELSE <<>>) \o Pick(seq, S, i + 1)

\* the lineups the optimizer can yield for the uploaded file and the exposure
\* slider: some of the catalogue
MvpPools == {Pick(MvpCatalogue, S, 1) : S \in SUBSET (DOMAIN MvpCatalogue)}

\* line 76
generate_n(cfg) == IF cfg.num_lineups * 5 < 1500 THEN cfg.num_lineups * 5 ELSE 1500

\* sum(p.salary for p in lineup.players), sum(p.fppg for p in x.players)
LineupSalary(lineup) == SumSeq(lineup, MvpSalary)
LineupFppg(lineup) == SumSeq(lineup, MvpFppg)

\* line 81
RECURSIVE salary_filtered(_, _)
salary_filtered(lineups_, cfg) ==
    IF lineups_ = <<>> THEN <<>>
    ELSE (IF cfg.min_salary <= LineupSalary(Head(lineups_))
             /\ LineupSalary(Head(lineups_)) <= cfg.max_salary
          THEN <<Head(lineups_)>> ELSE <<>>) \o salary_filtered(Tail(lineups_), cfg)

\* x put behind every entry of a list sorted by points, best first, whose
\* points are at least those of x
RECURSIVE InsertByFppg(_, _)
InsertByFppg(sorted, x) ==
    IF sorted = <<>> THEN <<x>>
    ELSE IF LineupFppg(Head(sorted)) >= LineupFppg(x)
         THEN <<Head(sorted)>> \o InsertByFppg(Tail(sorted), x)
         ELSE <<x>> \o sorted

\* line 89: sorted(..., key=points, reverse=True), which keeps the order of
\* lineups with equal points
RECURSIVE SortedByFppg(_)
SortedByFppg(seq) ==
    IF seq = <<>> THEN <<>>
    ELSE InsertByFppg(SortedByFppg(SubSeq(seq, 1, Len(seq) - 1)), seq[Len(seq)])

\* line 91: combinations([p.id for p in players], 2), tuples (earlier, later)
\* in the order of the list
combinations(lineup) ==
    {<<lineup[ij[1]], lineup[ij[2]]>> :
        ij \in {x \in (DOMAIN lineup) \X (DOMAIN lineup) : x[1] < x[2]}}

MvpPairKeys == MvpIds \X MvpIds

\* lines 89-99: the loop over the sorted lineups; pair_counts holds 0 for a
\* key the dict does not have
RECURSIVE PairFilterLoop(_, _, _, _)
PairFilterLoop(rest, pair_counts, selected_lineups, cfg) ==
    IF rest = <<>> THEN selected_lineups
    ELSE LET lineup == Head(rest)
             pairs == combinations(lineup)
             temp_counts == [pr \in MvpPairKeys |->
                                pair_counts[pr] + (IF pr \in pairs THEN 1 ELSE 0)]
             ok == \A pr \in MvpPairKeys : temp_counts[pr] <= cfg.max_player_pairs
             selected2 == IF ok THEN Append(selected_lineups, lineup) ELSE selected_lineups
             counts2 == IF ok THEN temp_counts ELSE pair_counts
         IN  IF Len(selected2) >= cfg.num_lineups THEN selected2
             ELSE PairFilterLoop(Tail(rest), counts2, selected2, cfg)

\* lines 85-100
filtered_lineups(lineups_, cfg) ==
    LET sf == salary_filtered(lineups_, cfg)
    IN  IF cfg.max_player_pairs < cfg.num_lineups
        THEN LET selected_lineups ==
                    PairFilterLoop(SortedByFppg(sf), [pr \in MvpPairKeys |-> 0], <<>>, cfg)
             IN  SubSeq(selected_lineups, 1,
                        IF Len(selected_lineups) < cfg.num_lineups
                        THEN Len(selected_lineups) ELSE cfg.num_lineups)
        ELSE sf

MvpInit ==
    /\ m_cfg \in {c \in MvpConfigs : c.max_player_pairs <= c.num_lineups}
    /\ m_pool \in MvpPools
    /\ m_filtered = <<>>
    /\ m_msg = "none"
    /\ m_pc = "ready"

\* lines 73-119 with list(optimizer.optimize(n=generate_n, ...)) returning
\* generate_n lineups: both filters, st.success, and st.warning on a shortfall
MvpGenerate ==
    /\ m_pc = "ready"
    /\ Len(m_pool) >= generate_n(m_cfg)
    /\ LET lineups_ == SubSeq(m_pool, 1, generate_n(m_cfg))
       IN  m_filtered' = filtered_lineups(lineups_, m_cfg)
    /\ m_msg' = IF Len(m_filtered') < m_cfg.num_lineups THEN "warning" ELSE "success"
    /\ m_pc' = "shown"
    /\ UNCHANGED <<m_cfg, m_pool>>
    /\ UNCHANGED <<ovars, dvars>>

\* lines 113-115: the optimizer cannot build generate_n lineups and raises
\* inside list(...); st.error and st.stop()
MvpGenerateError ==
    /\ m_pc = "ready"
    /\ Len(m_pool) < generate_n(m_cfg)
    /\ m_msg' = "error"
    /\ m_pc' = "stopped"
    /\ UNCHANGED <<m_cfg, m_pool, m_filtered>>
    /\ UNCHANGED <<ovars, dvars>>

InitMvp == OptOff /\ DivOff /\ MvpInit
NextMvp == MvpGenerate \/ MvpGenerateError
SpecMvp == InitMvp /\ [][NextMvp]_vars

----------------------------------------------------------------------------
(* Claims about SleekOptimizer.optimize *)

PlayersOf(i) == yielded[i].players
TimesUsed(p) == Cardinality({i \in DOMAIN yielded : p \in PlayersOf(i)})

\* C1: every yielded lineup has exactly total_players distinct players, total
\* salary <= budget, for each configured (position, count) exactly `count`
\* players eligible for the position and, when max_from_team is set, at most
\* max_from_team players of any one team.
C1_YieldedLineupsAreValid ==
    o_pc # "off" =>
    \A i \in DOMAIN yielded :
        LET L == yielded[i] IN
        /\ Cardinality(L.players) = o_cfg.total_players
        /\ L.players \subseteq OptIds
        /\ L.total_salary <= o_cfg.budget
        /\ L.total_salary = SumOver(L.players, [p \in OptIds |-> OptPool[p].salary])
        /\ \A pos \in DOMAIN o_cfg.positions :
              Cardinality({p \in L.players : pos \in OptPool[p].positions})
                 = o_cfg.positions[pos]
        /\ o_cfg.max_from_team # 0 =>
              \A t \in {"A", "B", "C"} :
                 Cardinality({p \in L.players : OptPool[p].team = t}) <= o_cfg.max_from_team

\* a second lineup yielded with the budget exhausted and the team cap reached
C1_Witness ==
    /\ o_pc = "yielded"
    /\ Len(yielded) = 2
    /\ o_cfg.max_from_team = 2
    /\ yielded[2].total_salary = o_cfg.budget
    /\ \E t \in OptTeams :
          Cardinality({p \in PlayersOf(2) : OptPool[p].team = t}) = o_cfg.max_from_team

\* C7 (as claimed): at the end of a batch of n lineups every player appears in
\* at most m*n lineups, m being the max_exposure argument or the player's own
\* max_exposure.
C7_ExposureCapRespected ==
    o_pc = "done" =>
    \A p \in OptDf(o_cfg) :
        /\ o_cfg.max_exposure.some =>
              TimesUsed(p) * o_cfg.max_exposure.den <= o_cfg.max_exposure.num * o_cfg.n
        /\ o_maxexp[p].some =>
              TimesUsed(p) * o_maxexp[p].den <= o_maxexp[p].num * o_cfg.n

\* C10: the lineup a solve returns has maximal total projected points among
\* the player subsets satisfying that solve's constraints: roster size,
\* position counts, budget, team cap, active rules, exposure exclusions.
C10_SolveIsOptimal ==
    o_pc = "yielded" =>
    LET L == yielded[Len(yielded)]
        Allowed(T) ==
            /\ Cardinality(T) = o_cfg.total_players
            /\ \A pos \in DOMAIN o_cfg.positions :
                  Cardinality({p \in T : pos \in OptPool[p].positions}) = o_cfg.positions[pos]
            /\ SumOver(T, OptSalary) <= o_cfg.budget
            /\ o_cfg.max_from_team # 0 =>
                  \A t \in OptTeams :
                     Cardinality({p \in T : OptPool[p].team = t}) <= o_cfg.max_from_team
            /\ \A rule \in o_cfg.rules : RuleHolds(T, rule, o_cfg, context)
            /\ T \cap ExposureExcluded(o_cfg, o_maxexp, context) = {}
    IN  /\ Allowed(L.players)
        /\ \A T \in SUBSET OptDf(o_cfg) :
              Allowed(T) => SumOver(T, o_fppg) <= L.total_fppg

\* a solve under perturbed points, an exposure exclusion in force and more
\* than one allowed subset to choose from
C10_Witness ==
    /\ o_pc = "yielded"
    /\ o_cfg.randomness
    /\ ExposureExcluded(o_cfg, o_maxexp, context) # {}
    /\ Cardinality(FeasibleSets(o_cfg, o_maxexp, context)) > 1

\* a roster the football template asks for: 9 players within budget, of which
\* one fills FLEX with an RB, WR or TE position and the other eight are one
\* QB, two RB, three WR, one TE and one DST (the players of the salary files
\* hold at least one position each)
ValidFootballRoster(S, cfg) ==
    /\ Cardinality(S) = 9
    /\ SumOver(S, OptSalary) <= cfg.budget
    /\ \E flex \in S :
          /\ OptPool[flex].positions \cap {"RB", "WR", "TE"} # {}
          /\ \A pos \in {"QB", "RB", "WR", "TE", "DST"} :
                Cardinality({p \in S \ {flex} : pos \in OptPool[p].positions})
                   = FootballPositions[pos]

\* C11 (as claimed): under the football template (1 QB, 2 RB, 3 WR, 1 TE,
\* 1 FLEX, 1 DST) with no further rule, a solve raises the infeasibility
\* error only when the pool admits no 9-player roster within budget whose
\* FLEX slot is filled by an RB, WR or TE.
C11_InfeasibleOnlyWithoutRoster ==
    ( /\ o_pc = "raised"
      /\ o_cfg.positions = FootballPositions
      /\ o_cfg.rules = {}
      /\ o_cfg.max_from_team = 0
      /\ ExposureExcluded(o_cfg, o_maxexp, context) = {} )
    => ~\E S \in SUBSET OptDf(o_cfg) : ValidFootballRoster(S, o_cfg)

\* two selected players that a restriction rule forbids together
ForbiddenPair(p1, p2, rule, cfg) ==
    CASE rule.kind = "RestrictOpp" ->
           /\ OptPool[p1].positions \cap rule.pos1 # {}
           /\ OptPool[p2].positions \cap rule.pos2 # {}
           /\ \E g \in cfg.games_map :
                 {OptPool[p1].team, OptPool[p2].team} = {g.t1, g.t2}
      [] rule.kind = "RestrictSame" ->
           /\ p1 # p2
           /\ OptPool[p1].team = OptPool[p2].team
           /\ rule.a \in OptPool[p1].positions
           /\ rule.b \in OptPool[p2].positions
      [] OTHER -> FALSE

HasForbiddenPair(S, cfg) ==
    \E rule \in cfg.rules : \E p1, p2 \in S : ForbiddenPair(p1, p2, rule, cfg)

\* C12: no yielded lineup contains a pair forbidden by an active restriction
\* rule: under restrict_positions_for_opposing_team(A, B) a player with a
\* position of A and one with a position of B on the two sides of a game of
\* games_map, under restrict_positions_for_same_team((A, B)) two distinct
\* same-team players with positions A and B.
C12_NoForbiddenPair ==
    o_pc # "off" =>
    \A i \in DOMAIN yielded : ~HasForbiddenPair(PlayersOf(i), o_cfg)

\* a lineup yielded under an opposing-team restriction that costs points:
\* without the rule a better subset exists, and it holds a forbidden pair
C12_Witness ==
    /\ o_pc = "yielded"
    /\ \E rule \in o_cfg.rules : rule.kind = "RestrictOpp"
    /\ LET unrestricted == [o_cfg EXCEPT !.rules = {}]
       IN  \E T \in OptimalSets(unrestricted, o_maxexp, o_fppg, context) :
              /\ HasForbiddenPair(T, o_cfg)
              /\ SumOver(T, o_fppg) > yielded[Len(yielded)].total_fppg

\* a stack requirement read existentially: some team (some game) supplies
\* the asked number of selected players
StackMet(S, rule, cfg) ==
    CASE rule.kind = "TeamStack" ->
           \E team \in DfTeams(cfg) :
              Cardinality({p \in S : /\ OptPool[p].team = team
                                     /\ (rule.pos1 # {} =>
                                            OptPool[p].positions \cap rule.pos1 # {})})
                 >= rule.k
      [] rule.kind = "GameStack" ->
           \E g \in cfg.games_map :
              /\ Cardinality({p \in S : OptPool[p].team \in {g.t1, g.t2}}) >= rule.k
              /\ Cardinality({p \in S : OptPool[p].team = g.t1}) >= rule.min
              /\ Cardinality({p \in S : OptPool[p].team = g.t2}) >= rule.min
      [] OTHER -> TRUE

OnlyStackRules(cfg) ==
    /\ cfg.rules # {}
    /\ \A rule \in cfg.rules : rule.kind \in {"TeamStack", "GameStack"}

\* C13 (as claimed): a stack requirement is existential over groups, so a
\* solve under TeamStack / GameStack rules alone is infeasible only when no
\* roster meeting size, budget, position counts and team cap has one team
\* (one game) that supplies the asked number of players.
C13_StackIsExistential ==
    ( /\ o_pc = "raised"
      /\ OnlyStackRules(o_cfg)
      /\ ExposureExcluded(o_cfg, o_maxexp, context) = {} )
    => ~\E S \in SUBSET OptDf(o_cfg) :
           /\ Cardinality(S) = o_cfg.total_players
           /\ SumOver(S, OptSalary) <= o_cfg.budget
           /\ \A pos \in DOMAIN o_cfg.positions :
                 Cardinality({p \in S : pos \in OptPool[p].positions}) = o_cfg.positions[pos]
           /\ \A rule \in o_cfg.rules : StackMet(S, rule, o_cfg)

\* a selected player with position a and one with position b on the two
\* sides of a game
HasCrossPair(S, rule, cfg) ==
    \E g \in cfg.games_map : \E p1, p2 \in S :
        /\ rule.a \in OptPool[p1].positions
        /\ rule.b \in OptPool[p2].positions
        /\ {OptPool[p1].team, OptPool[p2].team} = {g.t1, g.t2}

\* C14 (as claimed): every lineup yielded with
\* force_positions_for_opposing_team((A, B)) active contains a player with
\* position A and a player with position B whose teams oppose each other in
\* one game.
C14_ForcedPairPresent ==
    o_pc # "off" =>
    \A i \in DOMAIN yielded :
        \A rule \in o_cfg.rules :
            rule.kind = "ForceOpp" => HasCrossPair(PlayersOf(i), rule, o_cfg)

\* C15 (as claimed): with set_max_repeating_players(k) active any two lineups
\* of the batch have at most k players in common.
C15_OverlapAtMostK ==
    o_pc # "off" =>
    \A rule \in o_cfg.rules :
        rule.kind = "MaxRepeat" =>
            \A i, j \in DOMAIN yielded :
                i < j => Cardinality(PlayersOf(i) \cap PlayersOf(j)) <= rule.k

\* C16 (as claimed): a player forced out of a solve by its max exposure is
\* forced out of the next solve of the batch as well (and so of every later
\* one).
C16_ExclusionIsOneWay ==
    [][ (o_pc = "yielded" /\ o_pc' = "solve") =>
            ExposureExcluded(o_cfg, o_maxexp, context)
               \subseteq ExposureExcluded(o_cfg', o_maxexp', context') ]_vars

\* C17 (as claimed): when a solve is infeasible the Generate handler is left
\* with the lineups produced before it; none is discarded.
C17_PartialBatchKept ==
    (o_pc = "raised" /\ gen_msg # "none") => lineups = yielded

\* a template position other than FLEX that no player of df holds
PositionWithoutPlayer(cfg) ==
    \E pos \in DOMAIN cfg.positions \ {"FLEX"} :
        \A p \in OptDf(cfg) : pos \notin OptPool[p].positions

\* C18 (as claimed): a request whose pool has fewer players than the template
\* has slots, or no player for some required position, is rejected before
\* any solve is attempted.
C18_RejectedBeforeSolve ==
    ( /\ o_pc # "off"
      /\ \/ Cardinality(OptDf(o_cfg)) < o_cfg.total_players
         \/ PositionWithoutPlayer(o_cfg) )
    => solves = 0

\* C21: a batch of n requested lineups performs at most n solve attempts and
\* then stops, with n lineups produced or with an infeasible solve; after the
\* end no further solve is attempted, and the end is always reached.
C21_GenerationTerminates ==
    /\ [](solves <= o_cfg.n)
    /\ [](o_pc = "done" => Len(yielded) = o_cfg.n /\ solves = o_cfg.n)
    /\ [](o_pc = "raised" =>
            /\ FeasibleSets(o_cfg, o_maxexp, context) = {}
            /\ Len(yielded) = solves - 1)
    /\ [][ (o_pc \in {"done", "raised"}) => (solves' = solves /\ o_pc' = o_pc) ]_vars
    /\ <>(o_pc \in {"done", "raised"})

\* the last of three requested solves is infeasible
C21_Witness ==
    o_pc = "raised" /\ o_cfg.n = 3 /\ solves = 3

\* C26: at the start of every solve lineups_generated is the number of
\* lineups yielded so far in the call and player_uses[p] the number of them
\* that contain p (both zero at the first solve); the sum of player_uses is
\* always total_players times lineups_generated.
C26_ContextMatchesYielded ==
    /\ o_pc = "solve" =>
          /\ context.lineups_generated = Len(yielded)
          /\ \A p \in DOMAIN context.player_uses : context.player_uses[p] = TimesUsed(p)
          /\ solves = Len(yielded)
    /\ o_pc # "off" =>
          SumOver(DOMAIN context.player_uses, context.player_uses)
             = o_cfg.total_players * context.lineups_generated

\* the third solve is about to start and some player is in both lineups
\* yielded so far
C26_Witness ==
    /\ o_pc = "solve"
    /\ context.lineups_generated = 2
    /\ \E p \in DOMAIN context.player_uses : context.player_uses[p] = 2

----------------------------------------------------------------------------
(* Claims about the diversification passes *)

Rows == DOMAIN df
NamesIn(i) == RowNames(df_in[i])
NamesOut(i) == RowNames(df[i])
Accepted == d_pc # "off" /\ d_last.kind = "accept"
\* the lineup the last accepted substitution was made in, as it was before
PriorNames == WithSlot(NamesOut(d_last.li), d_last.slot, d_last.orig)
Distinct(names) == \A a, b \in DOMAIN names : a # b => names[a] # names[b]
DivTeams == {DivTable[p].team : p \in DivIds} \ {""}
TeamCount(names, t) == Cardinality({a \in DOMAIN names : DivTable[names[a]].team = t})
TeamCapOk(names, cap) == \A t \in DivTeams : TeamCount(names, t) <= cap
\* a quarterback together with a wide receiver of his team
HasQBWRStack(names) ==
    \E a, b \in DOMAIN names :
        /\ "QB" \in Positions(names[a]) /\ "WR" \in Positions(names[b])
        /\ DivTable[names[a]].team = DivTable[names[b]].team
WithinWindow(sal) == d_par.salary_min <= sal /\ sal <= d_par.salary_cap
EligibleFor(p, s) == Positions(p) \cap SLOT_TO_ALLOWED_POS[slot_order[s]] # {}
\* the input batch is within both ceilings
Compliant ==
    LET e == compute_exposures(df_in)
    IN  /\ \A p \in DivIds :
              ~Exceeds(e.players[p], Len(df_in), d_par.max_exposure.num, d_par.max_exposure.den)
        /\ \A pr \in AllPairs :
              ~Exceeds(e.pairs[pr], Len(df_in),
                       d_par.max_pair_exposure.num, d_par.max_pair_exposure.den)

\* C2 (as claimed): in nfl.py and nflstacks.py, if every lineup of the input
\* batch is within a per-team cap, every lineup of the output batch is within
\* it, and if every input lineup holds a same-team QB+WR stack, every output
\* lineup holds one.
C2_HardConstraintsPreserved ==
    d_impl \in {"nfl", "stacks"} =>
    /\ \A cap \in 1..Len(slot_order) :
          (\A i \in Rows : TeamCapOk(NamesIn(i), cap))
             => \A i \in Rows : TeamCapOk(NamesOut(i), cap)
    /\ (\A i \in Rows : HasQBWRStack(NamesIn(i)))
          => \A i \in Rows : HasQBWRStack(NamesOut(i))

\* C3: if every lineup of the input batch has its salary within
\* [salary_min, salary_cap], so has every lineup of the batch after any
\* sequence of accepted substitutions, and no accepted substitution leaves
\* its lineup's salary outside that range.
C3_SalaryRangePreserved ==
    d_pc # "off" =>
    /\ (\A i \in Rows : WithinWindow(SalaryOf(NamesIn(i))))
          => \A i \in Rows : WithinWindow(SalaryOf(NamesOut(i)))
    /\ Accepted => WithinWindow(SalaryOf(NamesOut(d_last.li)))

\* a substitution accepted in a batch that was within the range, while another
\* player eligible for the slot and absent from the lineup would have left it
C3_Witness ==
    /\ Accepted
    /\ \A i \in Rows : WithinWindow(SalaryOf(NamesIn(i)))
    /\ \E c \in DivIds \ Range(PriorNames) :
          /\ EligibleFor(c, d_last.slot)
          /\ ~WithinWindow(SalaryOf(WithSlot(PriorNames, d_last.slot, c)))

\* C4: in nfl.py and div_lineup.py an accepted candidate was not in the
\* lineup before, and a lineup of pairwise distinct occupants keeps pairwise
\* distinct occupants.
C4_CandidateNotInLineup ==
    d_impl \in {"nfl", "wide"} =>
    /\ Accepted => d_last.cand \notin Range(PriorNames)
    /\ \A i \in Rows : Distinct(NamesIn(i)) => Distinct(NamesOut(i))

\* nfl.py accepted a substitution for a slot one of whose eligible players
\* stood in another slot of the lineup
C4_Witness ==
    /\ d_impl = "nfl"
    /\ Accepted
    /\ \E t \in SlotIdx \ {d_last.slot} : EligibleFor(PriorNames[t], d_last.slot)

\* C5 (as claimed): in nflstacks.py no lineup holds the same player in two
\* slots after any sequence of accepted substitutions.
C5_StacksNoRepeatedPlayer ==
    d_impl = "stacks" => \A i \in Rows : Distinct(NamesOut(i))

C8_IdempotentOnCompliantBatch ==
    d_pc # "off" => (df = df_in \/ ~Compliant)

\* div_lineup.py finished, final pass included, on a compliant batch of two
\* lineups under ceilings below 1
C8_Witness ==
    /\ d_impl = "wide"
    /\ d_pc = "done"
    /\ Compliant
    /\ Len(df_in) > 1
    /\ d_par.max_exposure # Frac(1, 1)
    /\ d_par.max_pair_exposure # Frac(1, 1)

\* C9: the TotalSalary and ProjectedPoints stored for a modified lineup are
\* the sums of salary and points of its current occupants in the table.
C9_NoDrift ==
    d_pc # "off" =>
    \A i \in d_mod :
        /\ df[i].TotalSalary = SalaryOf(NamesOut(i))
        /\ df[i].ProjectedPoints = PointsOf(NamesOut(i))

\* a substitution that changed its lineup's salary and points
C9_Witness ==
    /\ Accepted
    /\ df[d_last.li].TotalSalary # df_in[d_last.li].TotalSalary
    /\ df[d_last.li].ProjectedPoints # df_in[d_last.li].ProjectedPoints

\* every slot has at least 3 x batch size players of the table eligible for it
DeepPool ==
    \A i \in SlotIdx :
        Cardinality({p \in DivIds : Positions(p) \cap SLOT_TO_ALLOWED_POS[slot_order[i]] # {}})
           >= 3 * Len(df)

\* how often a player occurs in the batch as it stands
Realized(p) == compute_exposures(df).players[p]

\* C19 (as claimed): when every position has at least 3 x batch_size eligible
\* players in the table, then after a pass of nfl.py or div_lineup.py every
\* player's realized exposure count / batch_size is at most
\* max_exposure + 1 / batch_size.
C19_SoftConvergence ==
    ( /\ d_impl \in {"nfl", "wide"}
      /\ d_pc \in {"done", "shown"}
      /\ DeepPool )
    => \A p \in DivIds :
          Realized(p) * d_par.max_exposure.den
             <= d_par.max_exposure.num * Len(df) + d_par.max_exposure.den

\* the players and pairs of the returned batch that are over their targets
ResidualPlayers ==
    {p \in DivIds :
        Exceeds(Realized(p), Len(df), d_par.max_exposure.num, d_par.max_exposure.den)}
ResidualPairs ==
    {pr \in AllPairs :
        Exceeds(compute_exposures(df).pairs[pr], Len(df),
                d_par.max_pair_exposure.num, d_par.max_pair_exposure.den)}

\* C20 (as claimed): once the handler of nflstacks.py or div_lineup.py has
\* shown the diversified batch, every player and every pair whose realized
\* exposure exceeds its target is among the warnings.
C20_ResidualsReported ==
    (d_impl \in {"wide", "stacks"} /\ d_pc = "shown") =>
        /\ ResidualPlayers \subseteq warnings.players
        /\ ResidualPairs \subseteq warnings.pairs

\* the candidate acceptance test as claimed: every pair the candidate forms
\* with the lineup's other occupants is new to the lineup, so its ledger
\* count plus one stays within the pair target
ClaimedPairOk(names, orig, cand) ==
    \A other \in Range(names) \ {orig} :
        ~Exceeds(pair_exposure[SortedPair(cand, other)] + 1, total_lineups,
                 d_par.max_pair_exposure.num, d_par.max_pair_exposure.den)

\* the candidates of the slot visited next that pass every test of the pass
\* other than the pair test
PassesOtherTests(s, names) ==
    LET orig == names[s]
    IN  {cand \in DivIds \ Range(names) :
            /\ InSalaryRange(SalaryOf(WithSlot(names, s, cand)))
            /\ CASE d_impl = "nfl" -> cand \in NflCandidatesBySlot(slot_order[s])
                  [] d_impl = "wide" -> /\ cand \in WideCandidatesBySlot(slot_order[s])
                                        /\ WideCandExposureOk(cand)
                  [] d_impl = "stacks" ->
                        /\ cand \in StacksPossibleReplacements(orig)
                        /\ StacksValidPositions(WithSlot(names, s, cand))
                  [] OTHER -> FALSE}

\* the candidates the pass accepts at the slot visited next
AcceptedByPass(s, names) ==
    CASE d_impl = "nfl" -> NflAcceptable(s, names)
      [] d_impl = "wide" -> WideAcceptable(s, names)
      [] d_impl = "stacks" -> StacksAcceptable(s, names)
      [] OTHER -> {}

\* the occupant of the slot visited next is over a target
FlaggedByPass(s, names) ==
    IF d_impl = "stacks" THEN StacksFlagged(names[s])
    ELSE Flagged(names[s], PairsWith(names[s], names))

\* C22 (as claimed): at a flagged slot a candidate that passes the other
\* tests is rejected only because of a pair it forms with one of the
\* lineup's other occupants; pairs of occupants that stay are not counted up.
C22_RejectedOnlyByOwnPairs ==
    d_pc = "slot" =>
        LET s == NextSlot
            names == RowNames(df[d_li])
        IN  FlaggedByPass(s, names) =>
                \A cand \in PassesOtherTests(s, names) :
                    ClaimedPairOk(names, names[s], cand)
                        => cand \in AcceptedByPass(s, names)

\* C23: in diversify_lineups of nfl.py, for a batch whose lineups hold
\* pairwise distinct players in every slot, right after every accepted
\* substitution the exposure counter and the pair counter equal the counts
\* compute_exposures returns for the batch as it stands.
C23_NflLedgerMatchesBatch ==
    ( /\ d_impl = "nfl"
      /\ d_last.kind = "accept"
      /\ \A i \in DOMAIN df_in : Distinct(RowNames(df_in[i])) )
    => LET e == compute_exposures(df)
       IN  exposure = e.players /\ pair_exposure = e.pairs

\* a second substitution has just been accepted in a lineup
C23_Witness ==
    /\ d_impl = "nfl"
    /\ d_last.kind = "accept"
    /\ Cardinality({i \in SlotIdx : RowNames(df[d_last.li])[i] # RowNames(df_in[d_last.li])[i]}) >= 2

\* C24 (as claimed): in diversify_lineups_wide of div_lineup.py and of
\* nflstacks.py, right after every accepted substitution the pair ledger
\* equals the pair counts re-derived from the batch as it stands; pairs of
\* occupants that stay in the lineup keep their count.
C24_WidePairLedgerMatchesBatch ==
    (d_impl \in {"wide", "stacks"} /\ d_last.kind = "accept")
    => pair_exposure = compute_exposures(df).pairs

\* C25: in nfl.py and div_lineup.py, a slot visit that ends with no candidate
\* accepted, or that the randomness throttle skips, leaves the batch (the
\* slot's occupant, the other slots, the stored totals), the player counts
\* and the pair counts exactly as they were.
C25_RejectionLeavesNoTrace ==
    [][ ( /\ d_impl \in {"nfl", "wide"}
          /\ d_pc = "slot"
          /\ d_last'.kind \in {"rejected", "throttle"} )
        => (df' = df /\ exposure' = exposure /\ pair_exposure' = pair_exposure) ]_vars

\* a visit of div_lineup.py has just ended with every candidate rejected,
\* some of them by the pair simulation
C25_Witness ==
    /\ d_impl = "wide"
    /\ d_last.kind = "rejected"
    /\ WideSimulated(d_last.slot, RowNames(df[d_last.li])) # {}

\* C27: a pass works on a copy: the input batch is never written, the
\* output has as many lineups as the input with every slot still holding a
\* player, and a further press of Diversify starts from the originally
\* generated batch, not from the result of the previous pass.
C27_InputsUnchanged ==
    /\ [][df_in' = df_in]_vars
    /\ [](d_impl # "off" =>
            /\ Len(df) = Len(df_in)
            /\ \A i \in DOMAIN df : \A c \in SlotIdx : name_key(df[i].cells[c]) \in DivIds)
    /\ [][ (d_pc = "shown" /\ d_pc' = "slot") => df' = df_in ]_vars

\* a pass has been shown that changed its working copy
C27_Witness ==
    /\ d_pc = "shown"
    /\ d_mod # {}
    /\ df # df_in

\* in how many cells of the batch a player stands
Occurrences(batch, p) ==
    Cardinality({ic \in (DOMAIN batch) \X SlotIdx : name_key(batch[ic[1]].cells[ic[2]]) = p})

\* C28: in diversify_lineups_wide of div_lineup.py, right after every
\* accepted substitution the incoming player's exposure count, and the
\* number of lineups of the batch that hold the player, divided by the batch
\* size are at most max_exposure.
C28_IncomingWithinCap ==
    (d_impl = "wide" /\ d_last.kind = "accept")
    => /\ ~Exceeds(exposure[d_last.cand], total_lineups,
                   d_par.max_exposure.num, d_par.max_exposure.den)
       /\ ~Exceeds(Occurrences(df, d_last.cand), total_lineups,
                   d_par.max_exposure.num, d_par.max_exposure.den)

\* a player has just been substituted in under a cap below 100 percent
C28_Witness ==
    /\ d_impl = "wide"
    /\ d_last.kind = "accept"
    /\ d_par.max_exposure = Frac(7, 10)
    /\ exposure[d_last.cand] = 1

----------------------------------------------------------------------------
(* Claims about the Generate handler of mvp.py *)

\* in how many of the lineups two players stand together
Together(lineups_, a, b) ==
    Cardinality({i \in DOMAIN lineups_ : {a, b} \subseteq Range(lineups_[i])})

\* C29 (as claimed): when max_player_pairs < num_lineups, no unordered pair
\* of players stands together in more than max_player_pairs of the selected
\* lineups, whatever the order of the players inside each lineup.
C29_PairCapRespected ==
    (m_pc = "shown" /\ m_cfg.max_player_pairs < m_cfg.num_lineups)
    => \A a, b \in MvpIds :
          a < b => Together(m_filtered, a, b) <= m_cfg.max_player_pairs

\* C30 (as claimed): the final filtered_lineups list has at most num_lineups
\* entries, each with total salary within [min_salary, max_salary], for every
\* max_player_pairs in 1..num_lineups.
C30_AtMostRequested ==
    m_pc = "shown"
    => /\ Len(m_filtered) <= m_cfg.num_lineups
       /\ \A i \in DOMAIN m_filtered :
             /\ m_cfg.min_salary <= LineupSalary(m_filtered[i])
             /\ LineupSalary(m_filtered[i]) <= m_cfg.max_salary

====
